---- MODULE Spec2Model ----
(***************************************************************************)
(* Event admission and sequencing pipeline of the LINE webhook server      *)
(* (src/app.js and its refactored drafts under src/unnamed).               *)
(*                                                                         *)
(* Three specifications over one set of variables:                         *)
(*   Spec      processEvent: isDuplicate, allowRate, tapGuardAccept, the   *)
(*             two sweepers and the clock (Date.now()).                    *)
(*   SpecRate  allowRate called on its own, any number of times per key.   *)
(*   SpecSeq   lockPerKeyAndRun: the promise chain kept in perKeyQueue.    *)
(* Time is Date.now() counted from the start of the process; the clock is  *)
(* taken to be monotonic.                                                  *)
(***************************************************************************)
EXTENDS Integers, Sequences, FiniteSets, TLC

VARIABLES
    clock,        \* Date.now(), ms
    ticks,        \* how many times the clock has advanced (bounds the run)
    redis,        \* TRUE when REDIS_URL is set (app.js:50-54)
    seenMem,      \* Map eventKey -> expireAt (app.js:326)
    tapMem,       \* Map mapKey -> expireAt (app.js:370)
    redisDb,      \* keys held by Redis with their expiry ("dedupe:..", "tap:..")
    rate,         \* Map key -> {tokens, updatedAt} (app.js:405)
    proc,         \* the processEvent executions in flight: position and what each saw
    admitted,     \* history: per dedupe key, when isDuplicate last returned false
    accepted,     \* history: per debounce key, when tapGuardAccept last returned true
    idHist,       \* history: per event id, the copies of one dedupe window
    reachedAt,    \* history: per event id, the arrival times of the copies that were routed
    last,         \* history: the execution of processEvent that returned last
    nEvents,      \* how many events have been handed to processEvent
    rateLog,      \* SpecRate: per key, the allowRate calls made: when, and what returned
    perKeyQueue,  \* Map key -> run promise of the tail task (app.js:421)
    task,         \* the tasks handed to lockPerKeyAndRun, by submission number
    startOrder,   \* the tasks in the order taskFn() was invoked
    fastEarly200, \* SpecHook: FAST_HTTP_EARLY_200 (part_001:298); app.js has the sync loop only
    reqs,         \* SpecHook: the webhook requests received: batch, loop position, response
    taskEv,       \* SpecHook: per task, the request and the batch index of its event
    logged,       \* SpecLog: the records written by logger for the events processed
    impl,         \* SpecDeliver: which delivery engine runs, "axios" (app.js) or "fetch" (part_001)
    dlvEvent,     \* SpecDeliver: the event handed to replyWithRetryOrPush
    rawMessages,  \* SpecDeliver: the message list handed to replyWithRetryOrPush
    domain,       \* SpecPayload: what the domain logic of processEvent produced
    dlv,          \* SpecDeliver: position of the delivery: pc, attempt, error thrown
    calls         \* SpecDeliver: the outbound calls made, in order, each with its answer

vars == <<clock, ticks, redis, seenMem, tapMem, redisDb, rate, proc,
          admitted, accepted, idHist, reachedAt, last, nEvents,
          rateLog, perKeyQueue, task, startOrder,
          fastEarly200, reqs, taskEv, logged, impl, dlvEvent, rawMessages, domain, dlv,
          calls>>

admVars == <<redis, seenMem, tapMem, redisDb, proc, admitted, accepted, idHist,
            reachedAt, last, nEvents>>
seqVars == <<perKeyQueue, task, startOrder>>
hookVars == <<fastEarly200, reqs, taskEv, logged>>
dlvVars == <<impl, dlvEvent, rawMessages, domain, dlv, calls>>

(***************************************************************************)
(* Configuration (defaults of the environment variables)                   *)
(***************************************************************************)
TAP_DEBOUNCE_MS == 1200
DEDUPE_TTL_MS == 300000
RATE_CAP == 10
RATE_REFILL == 1

(***************************************************************************)
(* Bounds of the model                                                     *)
(***************************************************************************)
NProcs == 2         \* processEvent executions in flight at once
MaxEvents == 2      \* events handed to processEvent in one behaviour of Spec
MaxTicks == 2       \* clock advances in one behaviour of Spec

\* The clock advances by half a debounce window, or by that much less than a
\* dedupe TTL: two short steps end a debounce window, a long and a short one
\* end a dedupe window, and each window is also seen from just inside.
TickSteps == {600, 299400}

\* A behaviour covers one dedupe window and the debounce window after its end.
Horizon == DEDUPE_TTL_MS + TAP_DEBOUNCE_MS

(***************************************************************************)
(* JavaScript Map                                                          *)
(***************************************************************************)
EmptyMap == [k \in {} |-> 0]
MapHas(m, k) == k \in DOMAIN m
MapSet(m, k, v) == [x \in (DOMAIN m) \cup {k} |-> IF x = k THEN v ELSE m[x]]
MapDelete(m, k) == [x \in (DOMAIN m) \ {k} |-> m[x]]

(***************************************************************************)
(* Events                                                                  *)
(***************************************************************************)
\* An event id names one event: its redelivered copies carry the same content
\* and differ in the redelivery flag alone. Texts are character sequences.
\*   e1: user u1 sends "f"      e2: user u1 sends " F" (the same tap again)
\*   e3: group g1 sends "f"
\* All are text messages with a replyToken; follow and unsupported types take
\* the branches of processEvent that call neither tapGuardAccept nor the router.
EventIds == {"e1", "e2", "e3"}

EventBody(id) ==
    CASE id = "e1" -> [type |-> "message", source |-> [type |-> "user", id |-> "u1"],
                       text |-> <<"f">>]
      [] id = "e2" -> [type |-> "message", source |-> [type |-> "user", id |-> "u1"],
                       text |-> <<" ", "F">>]
      [] OTHER     -> [type |-> "message", source |-> [type |-> "group", id |-> "g1"],
                       text |-> <<"f">>]

\* the ids of which a redelivered copy (deliveryContext.isRedelivery) arrives too
Redelivered == {"e1"}

MkEvent(id, r) ==
    [webhookEventId |-> id, type |-> EventBody(id).type,
     source |-> EventBody(id).source, text |-> EventBody(id).text,
     isRedelivery |-> r]

Events ==
    { MkEvent(id, FALSE) : id \in EventIds } \cup { MkEvent(id, TRUE) : id \in Redelivered }

NoEvent == [webhookEventId |-> "", type |-> "none",
            source |-> [type |-> "none", id |-> ""], text |-> <<>>,
            isRedelivery |-> FALSE]

eventKey(e) ==
    IF e.webhookEventId # "" THEN <<"id", e.webhookEventId>>
    ELSE <<e.type, "", "">>

keyFromEvent(e) ==
    IF e.source.type \in {"user", "group", "room"}
    THEN <<e.source.type, IF e.source.id # "" THEN e.source.id ELSE "unknown">>
    ELSE <<"unknown">>

ConvKeys == { keyFromEvent(e) : e \in Events }

toLowerChar(c) ==
    CASE c = "F" -> "f"
      [] c = "T" -> "t"
      [] OTHER -> c
toLowerCase(s) == [i \in 1..Len(s) |-> toLowerChar(s[i])]

RECURSIVE trimStart(_)
trimStart(s) == IF s # <<>> /\ Head(s) = " " THEN trimStart(Tail(s)) ELSE s
RECURSIVE trimEnd(_)
trimEnd(s) ==
    IF s # <<>> /\ s[Len(s)] = " " THEN trimEnd(SubSeq(s, 1, Len(s) - 1)) ELSE s
trim(s) == trimEnd(trimStart(s))

normalizePayloadText(s) == toLowerCase(trim(s))

tapMapKey(userOrGroupKey, payloadText) ==
    <<userOrGroupKey, normalizePayloadText(payloadText)>>

(***************************************************************************)
(* Redis: SET key 1 PX ttl NX. A key is gone once its ttl has run out.     *)
(***************************************************************************)
redisLive(db, key, t) == MapHas(db, key) /\ db[key] > t

\* variant: a refused SET still renews the time to live (sensitivity of C31)
redisSetPxNxRenew(db, key, ttl, t) ==
    IF redisLive(db, key, t)
    THEN [ok |-> FALSE, db |-> MapSet(db, key, t + ttl)]
    ELSE [ok |-> TRUE, db |-> MapSet(db, key, t + ttl)]

redisSetPxNx(db, key, ttl, t) ==
    IF redisLive(db, key, t)
    THEN [ok |-> FALSE, db |-> db]
    ELSE [ok |-> TRUE, db |-> MapSet(db, key, t + ttl)]

(***************************************************************************)
(* isDuplicate: [ret, mem, db] for a call made at time t                   *)
(***************************************************************************)
\* variant: the record is stored without the TTL added (sensitivity of C1)
isDuplicateMemNoTtl(mem, key, t) ==
    IF MapHas(mem, key) /\ mem[key] # 0 /\ mem[key] > t
    THEN [ret |-> TRUE, mem |-> mem]
    ELSE [ret |-> FALSE, mem |-> MapSet(mem, key, t)]

isDuplicateMem(mem, key, t) ==
    IF MapHas(mem, key) /\ mem[key] # 0 /\ mem[key] > t
    THEN [ret |-> TRUE, mem |-> mem]
    ELSE [ret |-> FALSE, mem |-> MapSet(mem, key, t + DEDUPE_TTL_MS)]

\* variant: SET without NX, every call is taken as first seen (sensitivity of C2)
isDuplicateRedisNoNx(db, key, t) ==
    [ret |-> FALSE, db |-> MapSet(db, <<"dedupe", key>>, t + DEDUPE_TTL_MS)]

isDuplicateRedis(db, key, t) ==
    LET r == redisSetPxNx(db, <<"dedupe", key>>, DEDUPE_TTL_MS, t)
    IN  [ret |-> ~r.ok, db |-> r.db]

(***************************************************************************)
(* tapGuardAccept: [ret, mem] for a call made at time t                    *)
(***************************************************************************)
\* variant: the stored expiry is not consulted (sensitivity of C3)
tapGuardAcceptMemAlways(mem, mapKey, t) ==
    [ret |-> TRUE, mem |-> MapSet(mem, mapKey, t + TAP_DEBOUNCE_MS)]

tapGuardAcceptMem(mem, mapKey, t) ==
    IF MapHas(mem, mapKey) /\ mem[mapKey] # 0 /\ mem[mapKey] > t
    THEN [ret |-> FALSE, mem |-> mem]
    ELSE [ret |-> TRUE, mem |-> MapSet(mem, mapKey, t + TAP_DEBOUNCE_MS)]

\* variant: the key still counts at the instant its time runs out (sensitivity of C4)
tapGuardAcceptRedisInclusive(db, mapKey, t) ==
    IF MapHas(db, <<"tap", mapKey>>) /\ db[<<"tap", mapKey>>] >= t
    THEN [ret |-> FALSE, db |-> db]
    ELSE [ret |-> TRUE, db |-> MapSet(db, <<"tap", mapKey>>, t + TAP_DEBOUNCE_MS)]

tapGuardAcceptRedis(db, mapKey, t) ==
    LET r == redisSetPxNx(db, <<"tap", mapKey>>, TAP_DEBOUNCE_MS, t)
    IN  [ret |-> r.ok, db |-> r.db]

(***************************************************************************)
(* allowRate: [ret, tokens (after the refill), rate] for a call at time t  *)
(***************************************************************************)
Min(a, b) == IF a <= b THEN a ELSE b

\* variant: no rejection below one token (sensitivity of C5)
allowRateNoReject(rt, key, t) ==
    LET nowSec == t \div 1000
        cur == IF MapHas(rt, key) THEN rt[key]
               ELSE [tokens |-> RATE_CAP, updatedAt |-> nowSec]
        refill == (nowSec - cur.updatedAt) * RATE_REFILL
        tokens == Min(RATE_CAP, cur.tokens + refill)
    IN  [ret |-> TRUE, tokens |-> tokens,
         rate |-> MapSet(rt, key, [tokens |-> tokens - 1, updatedAt |-> nowSec])]

\* variant: the refill counted per millisecond (sensitivity of C6)
allowRateMillis(rt, key, t) ==
    LET nowSec == t
        cur == IF MapHas(rt, key) THEN rt[key]
               ELSE [tokens |-> RATE_CAP, updatedAt |-> nowSec]
        refill == (nowSec - cur.updatedAt) * RATE_REFILL
        tokens == Min(RATE_CAP, cur.tokens + refill)
    IN  IF tokens < 1
        THEN [ret |-> FALSE, tokens |-> tokens,
              rate |-> MapSet(rt, key, [tokens |-> tokens, updatedAt |-> nowSec])]
        ELSE [ret |-> TRUE, tokens |-> tokens,
              rate |-> MapSet(rt, key, [tokens |-> tokens - 1, updatedAt |-> nowSec])]

allowRate(rt, key, t) ==
    LET nowSec == t \div 1000
        cur == IF MapHas(rt, key) THEN rt[key]
               ELSE [tokens |-> RATE_CAP, updatedAt |-> nowSec]
        refill == (nowSec - cur.updatedAt) * RATE_REFILL
        tokens == Min(RATE_CAP, cur.tokens + refill)
    IN  IF tokens < 1
        THEN [ret |-> FALSE, tokens |-> tokens,
              rate |-> MapSet(rt, key, [tokens |-> tokens, updatedAt |-> nowSec])]
        ELSE [ret |-> TRUE, tokens |-> tokens,
              rate |-> MapSet(rt, key, [tokens |-> tokens - 1, updatedAt |-> nowSec])]

(***************************************************************************)
(* processEvent (app.js:449-520), one action per stretch between awaits    *)
(***************************************************************************)
Procs == 1..NProcs

Never == -1
IdleProc == [pc |-> "idle", ev |-> NoEvent, at |-> 0, dup |-> FALSE, tap |-> FALSE]
NoLast == [ev |-> NoEvent, at |-> 0, outcome |-> "none", reached |-> FALSE]

\* isDuplicate(event) called at time t: the store it uses depends on redis
isDuplicate(useRedis, mem, db, event, t) ==
    IF useRedis
    THEN LET r == isDuplicateRedis(db, eventKey(event), t)
         IN  [ret |-> r.ret, mem |-> mem, db |-> r.db]
    ELSE LET r == isDuplicateMem(mem, eventKey(event), t)
         IN  [ret |-> r.ret, mem |-> r.mem, db |-> db]

tapGuardAccept(useRedis, mem, db, userOrGroupKey, payloadText, t) ==
    IF useRedis
    THEN LET r == tapGuardAcceptRedis(db, tapMapKey(userOrGroupKey, payloadText), t)
         IN  [ret |-> r.ret, mem |-> mem, db |-> r.db]
    ELSE LET r == tapGuardAcceptMem(mem, tapMapKey(userOrGroupKey, payloadText), t)
         IN  [ret |-> r.ret, mem |-> r.mem, db |-> db]

\* ---- history (what happened, kept apart from the stores the code reads) ----
\* the time of the last call that returned "fresh"/"accept", and of the one before
Recorded(h, k, t) ==
    MapSet(h, k, [prev |-> IF MapHas(h, k) THEN h[k].last ELSE Never, last |-> t])

\* the debounce pair of an event: conversation key and normalized payload
PairOf(e) == <<keyFromEvent(e), normalizePayloadText(e.text)>>

\* a copy of event id arrives at time t: it opens a window of DEDUPE_TTL_MS for
\* that id unless it falls inside the window opened by an earlier copy
Arrived(h, id, t) ==
    IF MapHas(h, id) /\ t < h[id].first + DEDUPE_TTL_MS
    THEN h
    ELSE MapSet(h, id, [first |-> t, done |-> 0, reached |-> 0])

\* a copy that arrived at time t has returned: counted (up to 2) in its window
Returned(h, id, t, reached) ==
    IF MapHas(h, id) /\ h[id].first <= t /\ t < h[id].first + DEDUPE_TTL_MS
    THEN MapSet(h, id, [first |-> h[id].first,
                        done |-> Min(2, h[id].done + 1),
                        reached |-> Min(2, h[id].reached + (IF reached THEN 1 ELSE 0))])
    ELSE h

\* processEvent returns (or throws, outcome "failed") for the execution in slot i
Finish(i, e, t, outcome, reached) ==
    /\ proc' = [proc EXCEPT ![i] = IdleProc]
    /\ last' = [ev |-> e, at |-> t, outcome |-> outcome, reached |-> reached]
    /\ reachedAt' = IF reached THEN Recorded(reachedAt, e.webhookEventId, t)
                    ELSE reachedAt
    /\ idHist' = Returned(IF MapHas(idHist, e.webhookEventId) THEN idHist
                          ELSE Arrived(idHist, e.webhookEventId, t),
                          e.webhookEventId, t, reached)

\* One process without Redis runs the events of a conversation key one at a
\* time (every call of processEvent is a task of lockPerKeyAndRun); with Redis
\* several server processes share the store and their executions interleave.
MayStart(i, e) ==
    /\ nEvents < MaxEvents
    /\ proc[i].pc = "idle"
    /\ \A j \in Procs : j < i => proc[j].pc # "idle"
    /\ redis \/ \A j \in Procs \ {i} :
                    \/ proc[j].pc = "idle"
                    \/ keyFromEvent(proc[j].ev) # keyFromEvent(e)

\* as ProcessEventStart, with isDuplicate consulted before the redelivery flag
ProcessEventStartStoreFirst(i, e) ==
    /\ MayStart(i, e)
    /\ LET r == isDuplicate(redis, seenMem, redisDb, e, clock)
       IN  /\ seenMem' = r.mem
           /\ redisDb' = r.db
           /\ IF e.isRedelivery
              THEN /\ proc' = proc
                   /\ last' = [ev |-> e, at |-> clock, outcome |-> "redelivery",
                               reached |-> FALSE]
                   /\ idHist' = Returned(Arrived(idHist, e.webhookEventId, clock),
                                         e.webhookEventId, clock, FALSE)
                   /\ admitted' = admitted
              ELSE /\ proc' = [proc EXCEPT ![i] =
                          [pc |-> "afterDup", ev |-> e, at |-> clock,
                           dup |-> r.ret, tap |-> FALSE]]
                   /\ admitted' = IF r.ret THEN admitted
                                  ELSE Recorded(admitted, eventKey(e), clock)
                   /\ idHist' = Arrived(idHist, e.webhookEventId, clock)
                   /\ last' = last
    /\ nEvents' = nEvents + 1
    /\ UNCHANGED <<clock, ticks, redis, tapMem, rate, accepted, reachedAt, rateLog>>
    /\ UNCHANGED seqVars
    /\ UNCHANGED hookVars
    /\ UNCHANGED dlvVars

\* processEvent is invoked with event e: the redelivery check, then the call of
\* isDuplicate (which runs up to its store access before processEvent awaits it)
ProcessEventStart(i, e) ==
    /\ MayStart(i, e)
    /\ IF e.isRedelivery
       THEN /\ proc' = proc
            /\ last' = [ev |-> e, at |-> clock, outcome |-> "redelivery", reached |-> FALSE]
            /\ idHist' = Returned(Arrived(idHist, e.webhookEventId, clock),
                                  e.webhookEventId, clock, FALSE)
            /\ UNCHANGED <<seenMem, redisDb, admitted>>
       ELSE LET r == isDuplicate(redis, seenMem, redisDb, e, clock)
            IN  /\ seenMem' = r.mem
                /\ redisDb' = r.db
                /\ proc' = [proc EXCEPT ![i] =
                       [pc |-> "afterDup", ev |-> e, at |-> clock,
                        dup |-> r.ret, tap |-> FALSE]]
                /\ admitted' = IF r.ret THEN admitted
                               ELSE Recorded(admitted, eventKey(e), clock)
                /\ idHist' = Arrived(idHist, e.webhookEventId, clock)
                /\ last' = last
    /\ nEvents' = nEvents + 1
    /\ UNCHANGED <<clock, ticks, redis, tapMem, rate, accepted, reachedAt, rateLog>>
    /\ UNCHANGED seqVars
    /\ UNCHANGED hookVars
    /\ UNCHANGED dlvVars

\* as ProcessEventAdmit, with allowRate called before the duplicate return
ProcessEventAdmitRateFirst(i) ==
    /\ proc[i].pc = "afterDup"
    /\ LET e == proc[i].ev
           userKey == keyFromEvent(e)
           ar == allowRate(rate, userKey, clock)
           tg == tapGuardAccept(redis, tapMem, redisDb, userKey, e.text, clock)
       IN  /\ rate' = ar.rate
           /\ IF proc[i].dup
              THEN /\ Finish(i, e, proc[i].at, "duplicate", FALSE)
                   /\ UNCHANGED <<tapMem, redisDb, accepted>>
              ELSE IF ~ar.ret
              THEN /\ Finish(i, e, proc[i].at, "rateLimited", FALSE)
                   /\ UNCHANGED <<tapMem, redisDb, accepted>>
              ELSE IF e.type = "follow"
              THEN /\ Finish(i, e, proc[i].at, "replied", TRUE)
                   /\ UNCHANGED <<tapMem, redisDb, accepted>>
              ELSE IF e.type = "message"
              THEN /\ tapMem' = tg.mem
                   /\ redisDb' = tg.db
                   /\ proc' = [proc EXCEPT ![i] =
                          [@ EXCEPT !.pc = "afterTap", !.tap = tg.ret]]
                   /\ accepted' = IF tg.ret
                                  THEN Recorded(accepted, PairOf(e), clock)
                                  ELSE accepted
                   /\ UNCHANGED <<idHist, reachedAt, last>>
              ELSE /\ Finish(i, e, proc[i].at, "unsupported", FALSE)
                   /\ UNCHANGED <<tapMem, redisDb, accepted>>
    /\ UNCHANGED <<clock, ticks, redis, seenMem, admitted, nEvents, rateLog>>
    /\ UNCHANGED seqVars
    /\ UNCHANGED hookVars
    /\ UNCHANGED dlvVars

\* after "await isDuplicate": the duplicate return, allowRate, safeLogEvent, the
\* type dispatch, and for a text message the call of tapGuardAccept
ProcessEventAdmit(i) ==
    /\ proc[i].pc = "afterDup"
    /\ LET e == proc[i].ev
           userKey == keyFromEvent(e)
           ar == allowRate(rate, userKey, clock)
           tg == tapGuardAccept(redis, tapMem, redisDb, userKey, e.text, clock)
       IN  IF proc[i].dup
           THEN /\ Finish(i, e, proc[i].at, "duplicate", FALSE)
                /\ UNCHANGED <<rate, tapMem, redisDb, accepted>>
           ELSE /\ rate' = ar.rate
                /\ IF ~ar.ret
                   THEN /\ Finish(i, e, proc[i].at, "rateLimited", FALSE)
                        /\ UNCHANGED <<tapMem, redisDb, accepted>>
                   ELSE IF e.type = "follow"
                   THEN /\ Finish(i, e, proc[i].at, "replied", TRUE)
                        /\ UNCHANGED <<tapMem, redisDb, accepted>>
                   ELSE IF e.type = "message"
                   THEN /\ tapMem' = tg.mem
                        /\ redisDb' = tg.db
                        /\ proc' = [proc EXCEPT ![i] =
                               [@ EXCEPT !.pc = "afterTap", !.tap = tg.ret]]
                        /\ accepted' = IF tg.ret
                                       THEN Recorded(accepted, PairOf(e), clock)
                                       ELSE accepted
                        /\ UNCHANGED <<idHist, reachedAt, last>>
                   ELSE /\ Finish(i, e, proc[i].at, "unsupported", FALSE)
                        /\ UNCHANGED <<tapMem, redisDb, accepted>>
    /\ UNCHANGED <<clock, ticks, redis, seenMem, admitted, nEvents, rateLog>>
    /\ UNCHANGED seqVars
    /\ UNCHANGED hookVars
    /\ UNCHANGED dlvVars

\* as ProcessEventRoute, with the reply sent whatever tapGuardAccept returned
ProcessEventRouteAlways(i, ok) ==
    /\ proc[i].pc = "afterTap"
    /\ Finish(i, proc[i].ev, proc[i].at,
              IF ~proc[i].tap THEN "debounced" ELSE IF ok THEN "replied" ELSE "failed",
              TRUE)
    /\ UNCHANGED <<clock, ticks, redis, seenMem, tapMem, redisDb, rate,
                   admitted, accepted, nEvents, rateLog>>
    /\ UNCHANGED seqVars
    /\ UNCHANGED hookVars
    /\ UNCHANGED dlvVars

\* after "await tapGuardAccept": the debounce return, else routing and
\* "await replyWithRetryOrPush(event, msgs)", which resolves or throws
ProcessEventRoute(i, ok) ==
    /\ proc[i].pc = "afterTap"
    /\ IF ~proc[i].tap
       THEN Finish(i, proc[i].ev, proc[i].at, "debounced", FALSE)
       ELSE Finish(i, proc[i].ev, proc[i].at, IF ok THEN "replied" ELSE "failed", TRUE)
    /\ UNCHANGED <<clock, ticks, redis, seenMem, tapMem, redisDb, rate,
                   admitted, accepted, nEvents, rateLog>>
    /\ UNCHANGED seqVars
    /\ UNCHANGED hookVars
    /\ UNCHANGED dlvVars

(***************************************************************************)
(* The sweepers (setInterval, app.js:327-331 and 371-375) and the clock    *)
(***************************************************************************)
\* variant: entries are removed half a debounce window before they expire
\* (sensitivity of C38)
sweepEarly(mem, t) ==
    LET keep == {k \in DOMAIN mem : ~(mem[k] <= t + 600)}
    IN  [k \in keep |-> mem[k]]

sweep(mem, t) ==
    LET keep == {k \in DOMAIN mem : ~(mem[k] <= t)}
    IN  [k \in keep |-> mem[k]]

SweepSeen ==
    /\ ~redis
    /\ seenMem' = sweep(seenMem, clock)
    /\ UNCHANGED <<clock, ticks, redis, tapMem, redisDb, rate, proc,
                   admitted, accepted, idHist, reachedAt, last, nEvents, rateLog>>
    /\ UNCHANGED seqVars
    /\ UNCHANGED hookVars
    /\ UNCHANGED dlvVars

SweepTap ==
    /\ ~redis
    /\ tapMem' = sweep(tapMem, clock)
    /\ UNCHANGED <<clock, ticks, redis, seenMem, redisDb, rate, proc,
                   admitted, accepted, idHist, reachedAt, last, nEvents, rateLog>>
    /\ UNCHANGED seqVars
    /\ UNCHANGED hookVars
    /\ UNCHANGED dlvVars

Tick(d) ==
    /\ ticks < MaxTicks
    /\ clock + d <= Horizon
    /\ clock' = clock + d
    /\ ticks' = ticks + 1
    /\ UNCHANGED <<redis, seenMem, tapMem, redisDb, rate, proc,
                   admitted, accepted, idHist, reachedAt, last, nEvents, rateLog>>
    /\ UNCHANGED seqVars
    /\ UNCHANGED hookVars
    /\ UNCHANGED dlvVars

\* no webhook request received, no delivery under way
InitHook ==
    /\ fastEarly200 = FALSE
    /\ reqs = <<>>
    /\ taskEv = <<>>
    /\ logged = <<>>

NoErr == -1
NoDelivery == [pc |-> "idle", attempt |-> 0, err |-> NoErr]
NoDomain == [matched |-> TRUE, msgs |-> <<>>, items |-> <<>>]

InitDlv ==
    /\ impl = "axios"
    /\ dlvEvent = NoEvent
    /\ rawMessages = <<>>
    /\ domain = NoDomain
    /\ dlv = NoDelivery
    /\ calls = <<>>

InitSeq ==
    /\ perKeyQueue = EmptyMap
    /\ task = <<>>
    /\ startOrder = <<>>

InitAdm ==
    /\ seenMem = EmptyMap
    /\ tapMem = EmptyMap
    /\ redisDb = EmptyMap
    /\ proc = [i \in Procs |-> IdleProc]
    /\ admitted = EmptyMap
    /\ accepted = EmptyMap
    /\ idHist = EmptyMap
    /\ reachedAt = EmptyMap
    /\ last = NoLast
    /\ nEvents = 0

Init ==
    /\ clock = 0
    /\ ticks = 0
    /\ redis \in BOOLEAN
    /\ rate = EmptyMap
    /\ rateLog = EmptyMap
    /\ InitAdm
    /\ InitSeq
    /\ InitHook
    /\ InitDlv

Next ==
    \/ \E i \in Procs, e \in Events : ProcessEventStart(i, e)
    \/ \E i \in Procs : ProcessEventAdmit(i)
    \/ \E i \in Procs, ok \in BOOLEAN : ProcessEventRoute(i, ok)
    \/ SweepSeen
    \/ SweepTap
    \/ \E d \in TickSteps : Tick(d)

Spec == Init /\ [][Next]_vars

(***************************************************************************)
(* SpecAdmit: processEvent with a rate bucket that may be drained and a    *)
(* store (Redis) whose calls may reject                                    *)
(***************************************************************************)
\* the bucket of user u1 after RATE_CAP events within the first second
DrainedRate ==
    MapSet(EmptyMap, <<"user", "u1">>, [tokens |-> 0, updatedAt |-> 0])

InitAdmit ==
    /\ clock = 0
    /\ ticks = 0
    /\ redis \in BOOLEAN
    /\ rate \in {EmptyMap, DrainedRate}
    /\ rateLog = EmptyMap
    /\ InitAdm
    /\ InitSeq
    /\ InitHook
    /\ InitDlv

\* redis.set inside isDuplicate rejects (app.js:343): nothing catches it, so
\* "await isDuplicate(event)" throws out of processEvent (app.js:456)
ProcessEventDupThrows(i, e) ==
    /\ MayStart(i, e)
    /\ redis
    /\ ~e.isRedelivery
    /\ Finish(i, e, clock, "storeError", FALSE)
    /\ nEvents' = nEvents + 1
    /\ UNCHANGED <<clock, ticks, redis, seenMem, tapMem, redisDb, rate,
                   admitted, accepted, rateLog>>
    /\ UNCHANGED seqVars
    /\ UNCHANGED hookVars
    /\ UNCHANGED dlvVars

\* redis.set inside tapGuardAccept rejects (app.js:385), after allowRate has
\* taken its token: "await tapGuardAccept(...)" throws out of processEvent
ProcessEventTapThrows(i) ==
    /\ proc[i].pc = "afterDup"
    /\ redis
    /\ ~proc[i].dup
    /\ proc[i].ev.type = "message"
    /\ LET ar == allowRate(rate, keyFromEvent(proc[i].ev), clock)
       IN  /\ ar.ret
           /\ rate' = ar.rate
    /\ Finish(i, proc[i].ev, proc[i].at, "storeError", FALSE)
    /\ UNCHANGED <<clock, ticks, redis, seenMem, tapMem, redisDb,
                   admitted, accepted, nEvents, rateLog>>
    /\ UNCHANGED seqVars
    /\ UNCHANGED hookVars
    /\ UNCHANGED dlvVars

\* the executions of processEvent follow one another, as they do for the
\* events of one request in the synchronous loop of the webhook handler
NextAdmit ==
    \/ \E e \in Events : ProcessEventStart(1, e)
    \/ ProcessEventAdmit(1)
    \/ \E ok \in BOOLEAN : ProcessEventRoute(1, ok)
    \/ \E e \in Events : ProcessEventDupThrows(1, e)
    \/ ProcessEventTapThrows(1)
    \/ SweepSeen
    \/ SweepTap
    \/ \E d \in TickSteps : Tick(d)

SpecAdmit == InitAdmit /\ [][NextAdmit]_vars

(***************************************************************************)
(* SpecLog: what processEvent of part_001 writes to the log for the text   *)
(* of an event (safeLogEvent, part_001:679-684, and the debounce record)   *)
(***************************************************************************)
MaxLogEvents == 2

\* A text is a sequence of tokens: " " is white space, every other token is a
\* run of characters without white space; "secret" is the passphrase.
LogTexts ==
    {<<"admin", " ", "register", " ", "secret">>,
     <<"admin", ":", "register", " ", "secret">>,
     <<" ", "admin", " ", "register", " ", "secret">>,
     <<"admin", ":", "stats">>,
     <<"f">>}

LogEvents ==
    {[webhookEventId |-> id, type |-> "message",
      source |-> [type |-> "user", id |-> "u1"], text |-> txt,
      isRedelivery |-> FALSE] : id \in {"e1", "e2"}, txt \in LogTexts}

RECURSIVE skipTokens(_, _)
skipTokens(s, set) ==
    IF s # <<>> /\ Head(s) \in set THEN skipTokens(Tail(s), set) ELSE s

\* /^admin[:\s]+register\s+\S+/i.test(txt)
matchesAdminRegister(txt) ==
    /\ txt # <<>>
    /\ Head(txt) = "admin"
    /\ LET a == Tail(txt)
           b == skipTokens(a, {":", " "})
       IN  /\ b # a
           /\ b # <<>>
           /\ Head(b) = "register"
           /\ LET c == Tail(b)
                  d == skipTokens(c, {" "})
              IN  /\ d # c
                  /\ d # <<>>

MaskedText == <<"admin", ":", "register", " ", "******">>
NoText == <<>>

safeLogEvent(e) ==
    [msg |-> "[Webhook Event]",
     text |-> IF matchesAdminRegister(e.text) THEN MaskedText ELSE e.text]

\* processEvent for a text event, memory stores, from its call to its return:
\* isDuplicate, allowRate, safeLogEvent, tapGuardAccept, and the records
\* written on the way
ProcessEventLogged(e) ==
    /\ nEvents < MaxLogEvents
    /\ nEvents' = nEvents + 1
    /\ LET dup == isDuplicateMem(seenMem, eventKey(e), clock)
           userKey == keyFromEvent(e)
           ar == allowRate(rate, userKey, clock)
           tg == tapGuardAcceptMem(tapMem, tapMapKey(userKey, e.text), clock)
       IN  /\ seenMem' = dup.mem
           /\ IF dup.ret
              THEN /\ logged' = Append(logged, [msg |-> "[Skip] Duplicate", text |-> NoText])
                   /\ UNCHANGED <<rate, tapMem>>
              ELSE /\ rate' = ar.rate
                   /\ IF ~ar.ret
                      THEN /\ logged' = Append(logged,
                                  [msg |-> "[RateLimit] Too many requests", text |-> NoText])
                           /\ UNCHANGED tapMem
                      ELSE /\ tapMem' = tg.mem
                           /\ logged' = IF tg.ret
                                        THEN Append(logged, safeLogEvent(e))
                                        ELSE Append(logged, safeLogEvent(e)) \o
                                             <<[msg |-> "[TapGuard] duplicate tap",
                                                text |-> e.text]>>
    /\ UNCHANGED <<clock, ticks, redis, redisDb, proc, admitted, accepted, idHist,
                   reachedAt, last, rateLog, fastEarly200, reqs, taskEv>>
    /\ UNCHANGED seqVars
    /\ UNCHANGED dlvVars

InitLog ==
    /\ clock = 0
    /\ ticks = 0
    /\ redis = FALSE
    /\ rate \in {EmptyMap, DrainedRate}
    /\ rateLog = EmptyMap
    /\ InitAdm
    /\ InitSeq
    /\ InitHook
    /\ InitDlv

NextLog ==
    \/ \E e \in LogEvents : ProcessEventLogged(e)
    \/ \E d \in TickSteps : Tick(d)

SpecLog == InitLog /\ [][NextLog]_vars

(***************************************************************************)
(* SpecRate: allowRate (app.js:406-418) called on its own                  *)
(***************************************************************************)
MaxRateCalls == 13   \* allowRate calls in one behaviour of SpecRate
MaxRateTicks == 1    \* clock advances in one behaviour of SpecRate
RateSteps == {500, 1000, 2000}

RECURSIVE CallsMade(_, _)
CallsMade(log, keys) ==
    IF keys = {} THEN 0
    ELSE LET k == CHOOSE x \in keys : TRUE
         IN  Len(log[k]) + CallsMade(log, keys \ {k})

RateCall(k) ==
    /\ CallsMade(rateLog, ConvKeys) < MaxRateCalls
    /\ LET r == allowRate(rate, k, clock)
       IN  /\ rate' = r.rate
           /\ rateLog' = [rateLog EXCEPT ![k] =
                  Append(@, [at |-> clock, ret |-> r.ret])]
    /\ UNCHANGED <<clock, ticks>>
    /\ UNCHANGED admVars
    /\ UNCHANGED seqVars
    /\ UNCHANGED hookVars
    /\ UNCHANGED dlvVars

RateTick(d) ==
    /\ ticks < MaxRateTicks
    /\ clock' = clock + d
    /\ ticks' = ticks + 1
    /\ UNCHANGED <<rate, rateLog>>
    /\ UNCHANGED admVars
    /\ UNCHANGED seqVars
    /\ UNCHANGED hookVars
    /\ UNCHANGED dlvVars

InitRate ==
    /\ clock \in {0, 500}
    /\ ticks = 0
    /\ redis = FALSE
    /\ rate = EmptyMap
    /\ InitAdm
    /\ rateLog = [k \in ConvKeys |-> <<>>]
    /\ InitSeq
    /\ InitHook
    /\ InitDlv

NextRate ==
    \/ \E k \in ConvKeys : RateCall(k)
    \/ \E d \in RateSteps : RateTick(d)

SpecRate == InitRate /\ [][NextRate]_vars

(***************************************************************************)
(* SpecSeq: lockPerKeyAndRun (app.js:434-446)                              *)
(*   run = prev.catch(() => {}).then(() => taskFn()).finally(() => {...})  *)
(* A run promise is named by the submission number of its task; 0 names    *)
(* Promise.resolve(). The steps of one task:                               *)
(*   chained   prev has not settled yet                                    *)
(*   joined    prev.catch(..) has settled (member p1 says how)             *)
(*   running   taskFn() has been invoked and its promise is pending        *)
(*   taskDone  taskFn()'s promise has settled (member res says how)        *)
(*   finalized the finally callback has run; run itself is still pending   *)
(*   settled   run has settled                                             *)
(***************************************************************************)
MaxTasks == 3        \* calls of lockPerKeyAndRun in one behaviour of SpecSeq

Tasks == 1..Len(task)
TaskSettled(i) == task[i].st \in {"taskDone", "finalized", "settled"}
RunSettled(p) == IF p = 0 THEN TRUE ELSE task[p].st = "settled"
RunResult(p) == IF p = 0 THEN "ok" ELSE task[p].res

\* variants: no chaining (sensitivity of C7); one chain for all keys (of C10)
prevOfNone(q, key) == 0

prevOfAnyKey(q, key) ==
    IF DOMAIN q = {} THEN 0
    ELSE CHOOSE p \in {q[k] : k \in DOMAIN q} : \A k \in DOMAIN q : q[k] <= p

\* const prev = perKeyQueue.get(key) || Promise.resolve();
prevOf(q, key) == IF MapHas(q, key) THEN q[key] ELSE 0

\* variant: the tail is kept when the key has one (sensitivity of C8)
tailAfterSubmitKeepFirst(q, key, run) == IF MapHas(q, key) THEN q ELSE MapSet(q, key, run)

\* perKeyQueue.set(key, run);
tailAfterSubmit(q, key, run) == MapSet(q, key, run)

\* variant: without the catch a rejection of prev passes on (sensitivity of C9)
catchJoinRethrow(prevResult) == IF prevResult = "err" THEN "rejected" ELSE "fulfilled"

\* prev.catch(() => {}): fulfilled whichever way prev has settled
catchJoin(prevResult) == "fulfilled"

\* variants: the entry is deleted whatever it points at (sensitivity of C32);
\* the entry is never deleted (of C33)
tailAfterFinallyAlways(q, key, run) == MapDelete(q, key)

tailAfterFinallyNever(q, key, run) == q

\* if (perKeyQueue.get(key) === run) perKeyQueue.delete(key);
tailAfterFinally(q, key, run) ==
    IF MapHas(q, key) /\ q[key] = run THEN MapDelete(q, key) ELSE q

\* lockPerKeyAndRun(key, taskFn): runs to its return in one piece
LockPerKeyAndRun(key) ==
    /\ Len(task) < MaxTasks
    /\ LET run == Len(task) + 1
       IN  /\ task' = Append(task, [key |-> key, prev |-> prevOf(perKeyQueue, key),
                                    st |-> "chained", p1 |-> "none",
                                    started |-> FALSE, res |-> "none"])
           /\ perKeyQueue' = tailAfterSubmit(perKeyQueue, key, run)
    /\ UNCHANGED <<startOrder, clock, ticks, rate, rateLog>>
    /\ UNCHANGED admVars
    /\ UNCHANGED hookVars
    /\ UNCHANGED dlvVars

\* prev has settled: the promise of prev.catch(() => {}) settles
JoinPrev(i) ==
    /\ i \in Tasks
    /\ task[i].st = "chained"
    /\ RunSettled(task[i].prev)
    /\ task' = [task EXCEPT ![i] =
                   [@ EXCEPT !.st = "joined", !.p1 = catchJoin(RunResult(task[i].prev))]]
    /\ UNCHANGED <<perKeyQueue, startOrder, clock, ticks, rate, rateLog>>
    /\ UNCHANGED admVars
    /\ UNCHANGED hookVars
    /\ UNCHANGED dlvVars

\* .then(() => taskFn()): the callback runs only when the promise before it
\* is fulfilled; a rejection passes through to finally without calling taskFn
StartTask(i) ==
    /\ i \in Tasks
    /\ task[i].st = "joined"
    /\ IF task[i].p1 = "fulfilled"
       THEN /\ task' = [task EXCEPT ![i] = [@ EXCEPT !.st = "running", !.started = TRUE]]
            /\ startOrder' = Append(startOrder, i)
       ELSE /\ task' = [task EXCEPT ![i] = [@ EXCEPT !.st = "taskDone", !.res = "err"]]
            /\ startOrder' = startOrder
    /\ UNCHANGED <<perKeyQueue, clock, ticks, rate, rateLog>>
    /\ UNCHANGED admVars
    /\ UNCHANGED hookVars
    /\ UNCHANGED dlvVars

\* the promise returned by taskFn() resolves or rejects
SettleTask(i, res) ==
    /\ i \in Tasks
    /\ task[i].st = "running"
    /\ task' = [task EXCEPT ![i] = [@ EXCEPT !.st = "taskDone", !.res = res]]
    /\ UNCHANGED <<perKeyQueue, startOrder, clock, ticks, rate, rateLog>>
    /\ UNCHANGED admVars
    /\ UNCHANGED hookVars
    /\ UNCHANGED dlvVars

\* the finally callback
Finally(i) ==
    /\ i \in Tasks
    /\ task[i].st = "taskDone"
    /\ perKeyQueue' = tailAfterFinally(perKeyQueue, task[i].key, i)
    /\ task' = [task EXCEPT ![i] = [@ EXCEPT !.st = "finalized"]]
    /\ UNCHANGED <<startOrder, clock, ticks, rate, rateLog>>
    /\ UNCHANGED admVars
    /\ UNCHANGED hookVars
    /\ UNCHANGED dlvVars

\* run settles the way taskFn()'s promise did
SettleRun(i) ==
    /\ i \in Tasks
    /\ task[i].st = "finalized"
    /\ task' = [task EXCEPT ![i] = [@ EXCEPT !.st = "settled"]]
    /\ UNCHANGED <<perKeyQueue, startOrder, clock, ticks, rate, rateLog>>
    /\ UNCHANGED admVars
    /\ UNCHANGED hookVars
    /\ UNCHANGED dlvVars

InitSeqSpec ==
    /\ clock = 0
    /\ ticks = 0
    /\ redis = FALSE
    /\ rate = EmptyMap
    /\ rateLog = EmptyMap
    /\ InitAdm
    /\ InitSeq
    /\ InitHook
    /\ InitDlv

NextSeq ==
    \/ \E k \in ConvKeys : LockPerKeyAndRun(k)
    \/ \E i \in 1..MaxTasks : JoinPrev(i)
    \/ \E i \in 1..MaxTasks : StartTask(i)
    \/ \E i \in 1..MaxTasks, res \in {"ok", "err"} : SettleTask(i, res)
    \/ \E i \in 1..MaxTasks : Finally(i)
    \/ \E i \in 1..MaxTasks : SettleRun(i)

SpecSeq == InitSeqSpec /\ [][NextSeq]_vars

\* The callbacks of a promise chain are run by the microtask queue as soon as
\* the promise they hang on settles; when taskFn() settles is up to the task.
FairSeq ==
    /\ WF_vars(\E i \in 1..MaxTasks : JoinPrev(i))
    /\ WF_vars(\E i \in 1..MaxTasks : StartTask(i))
    /\ WF_vars(\E i \in 1..MaxTasks : Finally(i))
    /\ WF_vars(\E i \in 1..MaxTasks : SettleRun(i))

SpecSeqLive == SpecSeq /\ FairSeq

(***************************************************************************)
(* SpecHook: app.post("/webhook") (app.js:544-579, part_001:809-853) over  *)
(* lockPerKeyAndRun. A request carries a batch of events, given here by    *)
(* their conversation keys; the task of an event is processEvent(ev, rid), *)
(* which resolves or rejects. The steps of the promise chain are those of  *)
(* SpecSeq.                                                                *)
(***************************************************************************)
MaxReqs == 2         \* webhook requests in one behaviour of SpecHook
MaxBatch == 2        \* events in one request

Batches == UNION { [1..n -> ConvKeys] : n \in 1..MaxBatch }

NewTask(q, key) ==
    [key |-> key, prev |-> prevOf(q, key), st |-> "chained", p1 |-> "none",
     started |-> FALSE, res |-> "none"]

\* lockPerKeyAndRun(keyFromEvent(ev), () => processEvent(ev, rid)) for the
\* event at index idx of request r; s holds perKeyQueue, task and taskEv
lockPerKeyAndRun(s, key, r, idx) ==
    [q |-> tailAfterSubmit(s.q, key, Len(s.task) + 1),
     task |-> Append(s.task, NewTask(s.q, key)),
     ev |-> Append(s.ev, <<r, idx>>)]

\* events.map(ev => lockPerKeyAndRun(...)) from index idx on
RECURSIVE mapLock(_, _, _, _)
mapLock(s, batch, r, idx) ==
    IF idx > Len(batch) THEN s
    ELSE mapLock(lockPerKeyAndRun(s, batch[idx], r, idx), batch, r, idx + 1)

\* a request arrives: with FAST_HTTP_EARLY_200 it is answered 200 and all its
\* events are enqueued at once; otherwise the loop enqueues the first event
\* and awaits its run
Webhook(batch) ==
    /\ Len(reqs) < MaxReqs
    /\ LET r == Len(reqs) + 1
           s0 == [q |-> perKeyQueue, task |-> task, ev |-> taskEv]
           s1 == IF fastEarly200 THEN mapLock(s0, batch, r, 1)
                 ELSE lockPerKeyAndRun(s0, batch[1], r, 1)
       IN  /\ perKeyQueue' = s1.q
           /\ task' = s1.task
           /\ taskEv' = s1.ev
           /\ reqs' = Append(reqs,
                  IF fastEarly200
                  THEN [events |-> batch, pos |-> Len(batch), awaiting |-> 0, status |-> 200]
                  ELSE [events |-> batch, pos |-> 1, awaiting |-> Len(task) + 1, status |-> 0])
    /\ UNCHANGED <<startOrder, fastEarly200, logged, clock, ticks, rate, rateLog>>
    /\ UNCHANGED admVars
    /\ UNCHANGED dlvVars

\* the awaited run has settled: a rejection leaves the loop for the catch
\* block (500), else the next event is enqueued, or 200 is sent after the last
WebhookLoop(r) ==
    /\ r \in 1..Len(reqs)
    /\ reqs[r].status = 0
    /\ task[reqs[r].awaiting].st = "settled"
    /\ LET rq == reqs[r]
           s0 == [q |-> perKeyQueue, task |-> task, ev |-> taskEv]
           s1 == lockPerKeyAndRun(s0, rq.events[rq.pos + 1], r, rq.pos + 1)
       IN  IF task[rq.awaiting].res = "err"
           THEN /\ reqs' = [reqs EXCEPT ![r] = [@ EXCEPT !.status = 500]]
                /\ UNCHANGED <<perKeyQueue, task, taskEv>>
           ELSE IF rq.pos < Len(rq.events)
           THEN /\ perKeyQueue' = s1.q
                /\ task' = s1.task
                /\ taskEv' = s1.ev
                /\ reqs' = [reqs EXCEPT ![r] =
                       [@ EXCEPT !.pos = rq.pos + 1, !.awaiting = Len(task) + 1]]
           ELSE /\ reqs' = [reqs EXCEPT ![r] = [@ EXCEPT !.status = 200]]
                /\ UNCHANGED <<perKeyQueue, task, taskEv>>
    /\ UNCHANGED <<startOrder, fastEarly200, logged, clock, ticks, rate, rateLog>>
    /\ UNCHANGED admVars
    /\ UNCHANGED dlvVars

InitHookSpec ==
    /\ clock = 0
    /\ ticks = 0
    /\ redis = FALSE
    /\ rate = EmptyMap
    /\ rateLog = EmptyMap
    /\ InitAdm
    /\ InitSeq
    /\ fastEarly200 \in BOOLEAN
    /\ reqs = <<>>
    /\ taskEv = <<>>
    /\ logged = <<>>
    /\ InitDlv

NextHook ==
    \/ \E batch \in Batches : Webhook(batch)
    \/ \E r \in 1..MaxReqs : WebhookLoop(r)
    \/ \E i \in 1..(MaxReqs * MaxBatch) : JoinPrev(i)
    \/ \E i \in 1..(MaxReqs * MaxBatch) : StartTask(i)
    \/ \E i \in 1..(MaxReqs * MaxBatch), res \in {"ok", "err"} : SettleTask(i, res)
    \/ \E i \in 1..(MaxReqs * MaxBatch) : Finally(i)
    \/ \E i \in 1..(MaxReqs * MaxBatch) : SettleRun(i)

SpecHook == InitHookSpec /\ [][NextHook]_vars

(***************************************************************************)
(* Delivery engine: replyWithRetryOrPush, replyWithRetry and the push      *)
(* fallback. Two engines are in the sources: "axios" (app.js:273-323:      *)
(* line.post rejects on every answer that is not 2xx and on a transport    *)
(* error; the fallback is pushMessage, one call) and "fetch"               *)
(* (part_001:588-665: lineFetch resolves with every answer and rejects on  *)
(* a transport error; the fallback is pushWithRetry).                      *)
(***************************************************************************)
MAX_REPLY_MESSAGES == 5
maxAttempts == 4

\* ---- messages -----------------------------------------------------------
\* A message is a record with a text and a quickReply member; a quickReply
\* says whether it is there at all, whether its items member is an array, and
\* gives the items. null stands for any falsy entry of the list.
NoQuickReply == [present |-> FALSE, isArray |-> FALSE, items |-> <<>>]
QuickReply(items) == [present |-> TRUE, isArray |-> TRUE, items |-> items]
QuickReplyNoItems == [present |-> TRUE, isArray |-> FALSE, items |-> <<>>]
Msg(text, qr) == [type |-> "text", text |-> text, quickReply |-> qr]
null == [type |-> "null", text |-> "", quickReply |-> NoQuickReply]
Boolean(m) == m.type # "null"

RECURSIVE filterBoolean(_)
filterBoolean(messages) ==
    IF messages = <<>> THEN <<>>
    ELSE IF ~Boolean(Head(messages)) THEN filterBoolean(Tail(messages))
    ELSE <<Head(messages)>> \o filterBoolean(Tail(messages))

slice(messages, n) == SubSeq(messages, 1, Min(n, Len(messages)))

\* a value that is not an array (an object, a string): written as a
\* distinguished value, which no list of messages equals
NotAnArray == <<[type |-> "undefined", text |-> "", quickReply |-> NoQuickReply]>>
isArray(messages) == messages # NotAnArray

sanitizeMessagesNoSlice(messages) ==
    IF ~isArray(messages) THEN <<>> ELSE filterBoolean(messages)

sanitizeMessages(messages) ==
    IF ~isArray(messages) THEN <<>>
    ELSE slice(filterBoolean(messages), MAX_REPLY_MESSAGES)

\* m && m.quickReply && (!Array.isArray(m.quickReply.items) || items.length === 0)
emptyQuickReply(m) ==
    /\ Boolean(m)
    /\ m.quickReply.present
    /\ \/ ~m.quickReply.isArray
       \/ Len(m.quickReply.items) = 0

stripEmptyQuickReply(messages) ==
    [i \in 1..Len(messages) |->
        IF emptyQuickReply(messages[i])
        THEN [messages[i] EXCEPT !.quickReply = NoQuickReply]
        ELSE messages[i]]

\* the messages member of the body that replyWithRetry / the push sends
payload(engine, raw) ==
    IF engine = "fetch" THEN stripEmptyQuickReply(sanitizeMessages(raw))
    ELSE sanitizeMessages(raw)

\* ---- answers of the LINE API --------------------------------------------
\* status 0 stands for a transport error (no response: timeout, reset)
Answer(status, retryAfter) == [status |-> status, retryAfter |-> retryAfter]
Answers ==
    {Answer(200, <<>>), Answer(410, <<>>), Answer(0, <<>>),
     Answer(429, <<>>), Answer(429, <<"2">>), Answer(500, <<>>)}

digit(c) ==
    CASE c = "0" -> 0 [] c = "1" -> 1 [] c = "2" -> 2 [] c = "3" -> 3
      [] c = "4" -> 4 [] c = "5" -> 5 [] c = "6" -> 6 [] c = "7" -> 7
      [] c = "8" -> 8 [] c = "9" -> 9 [] OTHER -> -1

\* value of the leading digits of s, given the value acc of those read so far
RECURSIVE digits(_, _)
digits(s, acc) ==
    IF s = <<>> \/ digit(Head(s)) < 0 THEN acc
    ELSE digits(Tail(s), acc * 10 + digit(Head(s)))

\* a JavaScript number as far as parseInt gives one: NaN or an integer
NaN == [nan |-> TRUE, value |-> 0]
Number(n) == [nan |-> FALSE, value |-> n]

\* parseInt(header || "0", 10)
parseInt(header) ==
    LET s == IF header = <<>> THEN <<"0">> ELSE trimStart(header)
        neg == s # <<>> /\ Head(s) = "-"
        body == IF s # <<>> /\ Head(s) \in {"-", "+"} THEN Tail(s) ELSE s
    IN  IF body = <<>> \/ digit(Head(body)) < 0 THEN NaN
        ELSE IF neg THEN Number(0 - digits(body, 0)) ELSE Number(digits(body, 0))

\* variant: a 5xx answer is not retried (sensitivity of C16)
retryableOnly429(status) == status = 429

\* status === 429 || (status >= 500 && status < 600)
retryable(status) == status = 429 \/ (status >= 500 /\ status < 600)

expBackoff(attempt) == Min(2000 * 2 ^ (attempt - 1), 8000)

\* variant: the retry-after hint is ignored (sensitivity of C17)
backoffNoHint(retryAfterSec, attempt) == expBackoff(attempt)

\* const backoff = retryAfterSec > 0 ? retryAfterSec * 1000 : Math.min(...)
backoff(retryAfterSec, attempt) ==
    IF ~retryAfterSec.nan /\ retryAfterSec.value > 0 THEN retryAfterSec.value * 1000
    ELSE expBackoff(attempt)

\* ---- the loops ------------------------------------------------------------
Return == [do |-> "return", ms |-> 0, err |-> NoErr]
Sleep(ms) == [do |-> "sleep", ms |-> ms, err |-> NoErr]
Throw(status) == [do |-> "throw", ms |-> 0, err |-> status]

\* variant: a successful reply does not end the loop (sensitivity of C12)
replyWithRetryNoReturn(engine, attempt, ans) ==
    IF ans.status = 200 \/ retryable(ans.status)
    THEN Sleep(backoff(parseInt(ans.retryAfter), attempt))
    ELSE IF engine = "axios" THEN Throw(ans.status)
    ELSE IF attempt >= maxAttempts THEN Throw(ans.status)
    ELSE Sleep(expBackoff(attempt))

\* what one pass of the loop of replyWithRetry does with the answer to its
\* call: return, sleep and go on with the next pass, or throw
replyWithRetry(engine, attempt, ans) ==
    IF ans.status = 200 THEN Return
    ELSE IF retryable(ans.status)
    THEN Sleep(backoff(parseInt(ans.retryAfter), attempt))
    ELSE IF engine = "axios" THEN Throw(ans.status)
    ELSE IF attempt >= maxAttempts THEN Throw(ans.status)
    ELSE Sleep(expBackoff(attempt))

\* pushWithRetry (part_001:621-652): the same loop on the push endpoint
pushWithRetry(attempt, ans) ==
    IF ans.status = 200 THEN Return
    ELSE IF retryable(ans.status)
    THEN Sleep(backoff(parseInt(ans.retryAfter), attempt))
    ELSE IF attempt >= maxAttempts THEN Throw(ans.status)
    ELSE Sleep(expBackoff(attempt))

\* pushMessage (app.js:304-308): one call, its rejection is not caught
pushMessage(ans) == IF ans.status = 200 THEN Return ELSE Throw(ans.status)

\* the catch block of replyWithRetryOrPush: is the fallback taken?
canPush(status, event) ==
    /\ status >= 400 /\ status < 500
    /\ event.source.type = "user"
    /\ event.source.id # ""

\* ---- one delivery ---------------------------------------------------------
\* the events: a user with a userId, a user without one, a group
DlvSources ==
    {[type |-> "user", id |-> "u1"], [type |-> "user", id |-> ""],
     [type |-> "group", id |-> "g1"]}
DlvEvents ==
    {[webhookEventId |-> "e1", replyToken |-> "rt1", source |-> src] : src \in DlvSources}

Call(chan, attempt, ans, wait) ==
    [chan |-> chan, attempt |-> attempt,
     replyToken |-> IF chan = "reply" THEN dlvEvent.replyToken ELSE "",
     to |-> IF chan = "push" THEN dlvEvent.source.id ELSE "",
     messages |-> payload(impl, rawMessages),
     status |-> ans.status, retryAfter |-> ans.retryAfter, wait |-> wait]

NoWait == -1
WaitOf(step) == IF step.do = "sleep" THEN step.ms ELSE NoWait

ReplyWithRetryOrPushNoSkip ==
    /\ dlv.pc = "called"
    /\ dlv' = [pc |-> "reply", attempt |-> 1, err |-> NoErr]
    /\ UNCHANGED <<impl, dlvEvent, rawMessages, domain, calls, clock, ticks, rate,
                   rateLog>>
    /\ UNCHANGED admVars
    /\ UNCHANGED seqVars
    /\ UNCHANGED hookVars

\* replyWithRetryOrPush(event, rawMessages) is called: replyWithRetry returns
\* at once when no message is left, else it makes its first call
ReplyWithRetryOrPush ==
    /\ dlv.pc = "called"
    /\ dlv' = IF Len(payload(impl, rawMessages)) = 0
              THEN [pc |-> "resolved", attempt |-> 0, err |-> NoErr]
              ELSE [pc |-> "reply", attempt |-> 1, err |-> NoErr]
    /\ UNCHANGED <<impl, dlvEvent, rawMessages, domain, calls, clock, ticks, rate,
                   rateLog>>
    /\ UNCHANGED admVars
    /\ UNCHANGED seqVars
    /\ UNCHANGED hookVars

\* the reply call of this attempt is answered
ReplyAnswered(ans) ==
    /\ dlv.pc = "reply"
    /\ LET step == replyWithRetry(impl, dlv.attempt, ans)
       IN  /\ calls' = Append(calls, Call("reply", dlv.attempt, ans, WaitOf(step)))
           /\ dlv' = IF step.do = "return"
                     THEN [dlv EXCEPT !.pc = "resolved"]
                     ELSE IF step.do = "sleep"
                     THEN [dlv EXCEPT !.pc = "replySleep"]
                     ELSE IF canPush(step.err, dlvEvent)
                     THEN [pc |-> "push", attempt |-> 1, err |-> NoErr]
                     ELSE [dlv EXCEPT !.pc = "rejected", !.err = step.err]
    /\ UNCHANGED <<impl, dlvEvent, rawMessages, domain, clock, ticks, rate,
                   rateLog>>
    /\ UNCHANGED admVars
    /\ UNCHANGED seqVars
    /\ UNCHANGED hookVars

\* the sleep is over: the next pass of the loop, or the end of the loop, after
\* which replyWithRetry returns undefined
ReplyWake ==
    /\ dlv.pc = "replySleep"
    /\ dlv' = IF dlv.attempt < maxAttempts
              THEN [dlv EXCEPT !.pc = "reply", !.attempt = dlv.attempt + 1]
              ELSE [dlv EXCEPT !.pc = "resolved"]
    /\ UNCHANGED <<impl, dlvEvent, rawMessages, domain, calls, clock, ticks, rate,
                   rateLog>>
    /\ UNCHANGED admVars
    /\ UNCHANGED seqVars
    /\ UNCHANGED hookVars

\* the push call is answered
PushAnswered(ans) ==
    /\ dlv.pc = "push"
    /\ LET step == IF impl = "axios" THEN pushMessage(ans)
                   ELSE pushWithRetry(dlv.attempt, ans)
       IN  /\ calls' = Append(calls, Call("push", dlv.attempt, ans, WaitOf(step)))
           /\ dlv' = IF step.do = "return"
                     THEN [dlv EXCEPT !.pc = "resolved"]
                     ELSE IF step.do = "sleep"
                     THEN [dlv EXCEPT !.pc = "pushSleep"]
                     ELSE [dlv EXCEPT !.pc = "rejected", !.err = step.err]
    /\ UNCHANGED <<impl, dlvEvent, rawMessages, domain, clock, ticks, rate,
                   rateLog>>
    /\ UNCHANGED admVars
    /\ UNCHANGED seqVars
    /\ UNCHANGED hookVars

PushWake ==
    /\ dlv.pc = "pushSleep"
    /\ dlv' = IF dlv.attempt < maxAttempts
              THEN [dlv EXCEPT !.pc = "push", !.attempt = dlv.attempt + 1]
              ELSE [dlv EXCEPT !.pc = "resolved"]
    /\ UNCHANGED <<impl, dlvEvent, rawMessages, domain, calls, clock, ticks, rate,
                   rateLog>>
    /\ UNCHANGED admVars
    /\ UNCHANGED seqVars
    /\ UNCHANGED hookVars

\* SpecDeliver: one message list, every answer
DlvMessages == <<Msg("a", QuickReply(<<"i1">>)), Msg("b", NoQuickReply)>>

InitDeliverCommon ==
    /\ clock = 0
    /\ ticks = 0
    /\ redis = FALSE
    /\ rate = EmptyMap
    /\ rateLog = EmptyMap
    /\ InitAdm
    /\ InitSeq
    /\ InitHook
    /\ impl \in {"axios", "fetch"}
    /\ dlvEvent \in DlvEvents
    /\ calls = <<>>

InitDeliver ==
    /\ InitDeliverCommon
    /\ rawMessages = DlvMessages
    /\ domain = NoDomain
    /\ dlv = [pc |-> "called", attempt |-> 0, err |-> NoErr]

NextDeliver ==
    \/ ReplyWithRetryOrPush
    \/ \E ans \in Answers : ReplyAnswered(ans)
    \/ ReplyWake
    \/ \E ans \in Answers : PushAnswered(ans)
    \/ PushWake

SpecDeliver == InitDeliver /\ [][NextDeliver]_vars

\* ---- the message lists handed to the delivery engine --------------------
\* Specification SpecPayload: the delivery engine over every message list
\* the domain logic can hand over, to follow what is put on the wire.
MaxRaw == 2
QR_MAX_ITEMS == 13

\* a quick-reply item is written by its label; "" is an item without label
\* or text
ItemLists == {<<>>, <<"">>, <<"i1">>}
validItem(i) == i # ""

RECURSIVE filterValid(_)
filterValid(items) ==
    IF items = <<>> THEN <<>>
    ELSE IF ~validItem(Head(items)) THEN filterValid(Tail(items))
    ELSE <<Head(items)>> \o filterValid(Tail(items))

\* app.js maps every item and always attaches the quickReply to the head;
\* part_001 keeps the valid items and attaches only a non-empty quickReply
withQuickReply(engine, messages, items) ==
    LET compact == sanitizeMessages(messages)
        qItems == IF engine = "fetch"
                  THEN slice(filterValid(items), QR_MAX_ITEMS)
                  ELSE items
    IN  IF Len(compact) = 0 THEN compact
        ELSE IF engine = "fetch" /\ Len(qItems) = 0 THEN compact
        ELSE <<[Head(compact) EXCEPT !.quickReply = QuickReply(qItems)]>>
             \o Tail(compact)

RawMsgs ==
    {null, Msg("a", NoQuickReply), Msg("b", QuickReply(<<>>)),
     Msg("c", QuickReply(<<"i1">>)), Msg("d", QuickReplyNoItems)}

\* a list longer than MAX_REPLY_MESSAGES, with and without a falsy entry
LongText == <<"m1", "m2", "m3", "m4", "m5", "m6">>
LongLists ==
    {[i \in 1..6 |-> Msg(LongText[i], NoQuickReply)],
     <<Msg(LongText[1], NoQuickReply), null>>
         \o [i \in 1..5 |-> Msg(LongText[i + 1], NoQuickReply)]}

\* what the domain logic returns as msgs
RawLists ==
    UNION {[1..n -> RawMsgs] : n \in 0..MaxRaw} \cup LongLists \cup {NotAnArray}

\* the message lists and items withQuickReply is called with; items = <<>> is
\* also the default of the parameter
QuickReplyArgs ==
    {<<>>, <<null>>, <<Msg("t", NoQuickReply)>>,
     <<Msg("t", NoQuickReply), Msg("u", NoQuickReply)>>} \X ItemLists

\* processEvent: msgs is sent as it is, or the reply is built by withQuickReply
Domains ==
    {[matched |-> TRUE, msgs |-> l, items |-> <<>>] : l \in RawLists}
    \cup {[matched |-> FALSE, msgs |-> a[1], items |-> a[2]] :
              a \in QuickReplyArgs}

\* the answers that end the reply and start the push
PayloadAnswers == {Answer(200, <<>>), Answer(410, <<>>)}

InitPayload ==
    /\ InitDeliverCommon
    /\ domain \in Domains
    /\ rawMessages = <<>>
    /\ dlv = [pc |-> "route", attempt |-> 0, err |-> NoErr]

\* processEvent: the message list is chosen and replyWithRetryOrPush is called
BuildReply ==
    /\ dlv.pc = "route"
    /\ rawMessages' = IF domain.matched THEN domain.msgs
                      ELSE withQuickReply(impl, domain.msgs, domain.items)
    /\ dlv' = [dlv EXCEPT !.pc = "called"]
    /\ UNCHANGED <<impl, dlvEvent, domain, calls, clock, ticks, rate, rateLog>>
    /\ UNCHANGED admVars
    /\ UNCHANGED seqVars
    /\ UNCHANGED hookVars

NextPayload ==
    \/ BuildReply
    \/ ReplyWithRetryOrPush
    \/ \E ans \in PayloadAnswers : ReplyAnswered(ans)
    \/ ReplyWake
    \/ \E ans \in PayloadAnswers : PushAnswered(ans)
    \/ PushWake

SpecPayload == InitPayload /\ [][NextPayload]_vars

(***************************************************************************)
(* Properties of the admission filters (Spec)                              *)
(***************************************************************************)
\* C1: for every event id and every interleaving of processEvent executions,
\* two isDuplicate calls that return false are never inside one dedupe window:
\* the later one is made at least DEDUPE_TTL_MS after the one that inserted
\* the record, so at most one call per window admits the event.
C1_AdmitOncePerWindow ==
    \A k \in DOMAIN admitted :
        admitted[k].prev # Never =>
            admitted[k].last - admitted[k].prev >= DEDUPE_TTL_MS

\* two copies of one event in flight at once: one was admitted, the other not
C1_Witness ==
    \E i, j \in Procs :
        /\ i # j
        /\ proc[i].pc = "afterDup" /\ proc[j].pc = "afterDup"
        /\ eventKey(proc[i].ev) = eventKey(proc[j].ev)
        /\ ~proc[i].dup /\ proc[j].dup

\* C2 as stated: of two events with one id handed to processEvent within the
\* dedupe window exactly one reaches the type dispatch (never both, never
\* neither).
C2_ExactlyOneReaches ==
    \A id \in DOMAIN idHist :
        idHist[id].done = 2 => idHist[id].reached = 1

\* C2, amended: of the events with one id handed to processEvent within the
\* dedupe window at most one reaches the type dispatch: two copies that reach
\* it arrived at least DEDUPE_TTL_MS apart.
C2_NeverBothReach ==
    /\ \A id \in DOMAIN idHist : idHist[id].reached <= 1
    /\ \A id \in DOMAIN reachedAt :
           reachedAt[id].prev # Never =>
               \/ reachedAt[id].last - reachedAt[id].prev >= DEDUPE_TTL_MS
               \/ reachedAt[id].prev - reachedAt[id].last >= DEDUPE_TTL_MS

\* both copies of a window have returned: one was routed, the other one was
\* dropped as a duplicate
C2_Witness ==
    \E id \in DOMAIN idHist :
        /\ idHist[id].done = 2
        /\ idHist[id].reached = 1
        /\ last.ev.webhookEventId = id
        /\ last.outcome = "duplicate"

\* C3: for every pair (conversation key, normalized payload) and every
\* interleaving, two tapGuardAccept calls that return true are never inside
\* one debounce window: the later one is made at least TAP_DEBOUNCE_MS after
\* the earlier one.
C3_AcceptOncePerWindow ==
    \A pr \in DOMAIN accepted :
        accepted[pr].prev # Never =>
            accepted[pr].last - accepted[pr].prev >= TAP_DEBOUNCE_MS

\* the text " F" was rejected because "f" of the same conversation had been
\* accepted inside the window
C3_Witness ==
    \E i \in Procs :
        /\ proc[i].pc = "afterTap"
        /\ ~proc[i].tap
        /\ proc[i].ev.text = <<" ", "F">>
        /\ MapHas(accepted, PairOf(proc[i].ev))
        /\ proc[i].at < accepted[PairOf(proc[i].ev)].last + TAP_DEBOUNCE_MS

C5_TokensInRange ==
    /\ [](\A k \in DOMAIN rate : 0 <= rate[k].tokens /\ rate[k].tokens <= RATE_CAP)
    /\ [][\A k \in DOMAIN rateLog :
             (/\ Len(rateLog'[k]) = Len(rateLog[k]) + 1
              /\ rateLog'[k][Len(rateLog'[k])].ret)
             => LET sec == clock \div 1000
                    refilled == IF MapHas(rate, k)
                                THEN Min(RATE_CAP, rate[k].tokens
                                         + (sec - rate[k].updatedAt) * RATE_REFILL)
                                ELSE RATE_CAP
                IN  rate'[k] = [tokens |-> refilled - 1, updatedAt |-> sec]]_vars

\* a bucket was emptied (a call returned false) and a later call, after a
\* refill, returned true
C5_Witness ==
    \E k \in DOMAIN rateLog :
        \E m, n \in 1..Len(rateLog[k]) :
            /\ m < n
            /\ ~rateLog[k][m].ret
            /\ rateLog[k][n].ret
            /\ rate[k].tokens = 0

\* C6: of the calls made for one key at the instant of its first call the
\* first RATE_CAP return true and the next one false; when the two calls after
\* these 11 are made one second later, the first returns true, the second false.
C6_BurstThenOne ==
    \A k \in DOMAIN rateLog :
        LET L == rateLog[k]
            burst(n) == \A m \in 1..n : L[m].at = L[1].at
            later(n) == n <= Len(L) /\ burst(RATE_CAP + 1) /\ L[n].at = L[1].at + 1000
        IN  /\ \A n \in 1..Len(L) :
                   (n <= RATE_CAP + 1 /\ burst(n)) => (L[n].ret <=> n <= RATE_CAP)
            /\ later(RATE_CAP + 2) => L[RATE_CAP + 2].ret
            /\ (later(RATE_CAP + 2) /\ later(RATE_CAP + 3)) => ~L[RATE_CAP + 3].ret

\* 11 calls at one instant and 2 calls one second later, for one key
C6_Witness ==
    \E k \in DOMAIN rateLog :
        /\ Len(rateLog[k]) = RATE_CAP + 3
        /\ \A m \in 1..(RATE_CAP + 1) : rateLog[k][m].at = rateLog[k][1].at
        /\ rateLog[k][RATE_CAP + 2].at = rateLog[k][1].at + 1000
        /\ rateLog[k][RATE_CAP + 3].at = rateLog[k][1].at + 1000
        /\ rateLog[k][RATE_CAP + 2].ret
        /\ ~rateLog[k][RATE_CAP + 3].ret

(***************************************************************************)
(* Properties of the per-key sequencer (SpecSeq)                           *)
(***************************************************************************)
\* C7: at every instant at most one task of a key is executing (taskFn()
\* invoked, its promise not yet settled), whenever the tasks were submitted.
C7_OneRunningPerKey ==
    \A i, j \in Tasks :
        (i # j /\ task[i].key = task[j].key)
            => ~(task[i].st = "running" /\ task[j].st = "running")

\* a task is executing and a later task of its key is waiting behind it
C7_Witness ==
    \E i, j \in Tasks :
        /\ i < j
        /\ task[i].key = task[j].key
        /\ task[i].st = "running"
        /\ task[j].st = "chained"

\* C8: the tasks of one key start in the order of their lockPerKeyAndRun
\* calls, however many there are and however the earlier ones ended: in
\* startOrder a task of a key never comes before an earlier-submitted task of
\* that key, and no task starts while an earlier one of its key has not.
C8_FifoPerKey ==
    /\ \A a, b \in 1..Len(startOrder) :
           (a < b /\ task[startOrder[a]].key = task[startOrder[b]].key)
               => startOrder[a] < startOrder[b]
    /\ \A i, j \in Tasks :
           (i < j /\ task[i].key = task[j].key /\ task[j].started) => task[i].started

\* three tasks of one key have started, the first of them rejected
C8_Witness ==
    /\ Len(startOrder) = 3
    /\ \A a \in 1..3 : task[startOrder[a]].key = task[startOrder[1]].key
    /\ task[startOrder[1]].res = "err"

\* C9: a task starts only after every earlier task of its key has settled, and
\* it does start after a rejected one: the promise joined by catch is always
\* fulfilled (the rejection is not passed on), so no task ends without
\* taskFn() having been called.
C9_StartsAfterSettleEitherWay ==
    /\ \A i, j \in Tasks :
           (i < j /\ task[i].key = task[j].key /\ task[j].started) => TaskSettled(i)
    /\ \A j \in Tasks : task[j].st # "chained" => task[j].p1 = "fulfilled"
    /\ \A j \in Tasks : TaskSettled(j) => task[j].started

\* B was chained behind A, A rejected, and B has started
C9_Witness ==
    \E i, j \in Tasks :
        /\ task[j].prev = i
        /\ task[i].res = "err"
        /\ task[j].started

\* C10: a task waits for tasks of its own key only: a waiting task is chained
\* to Promise.resolve() or to a run of its key, and it can go on as soon as the
\* earlier runs of its key have settled, whatever the tasks of other keys are
\* doing.
C10_NoCrossKeyWait ==
    /\ \A j \in Tasks :
           task[j].st = "chained" =>
               \/ task[j].prev = 0
               \/ task[task[j].prev].key = task[j].key
    /\ \A j \in Tasks :
           (/\ task[j].st = "chained"
            /\ \A i \in Tasks :
                   (i < j /\ task[i].key = task[j].key) => task[i].st = "settled")
           => ENABLED JoinPrev(j)

\* tasks of two keys are executing at once, the later one submitted while the
\* earlier one was executing
C10_Witness ==
    \E i, j \in Tasks :
        /\ i < j
        /\ task[i].key # task[j].key
        /\ task[i].st = "running"
        /\ task[j].st = "running"

(***************************************************************************)
(* Properties of the webhook handler (SpecHook)                            *)
(***************************************************************************)
\* C11 as stated: the events of one conversation key are processed (their
\* processEvent is invoked) in the order of their arrival: by request, and
\* inside a request by position in the batch, also with requests in flight
\* at the same time.
C11_ArrivalOrderPerKey ==
    \A a, b \in 1..Len(startOrder) :
        LET x == taskEv[startOrder[a]]
            y == taskEv[startOrder[b]]
        IN  (a < b /\ task[startOrder[a]].key = task[startOrder[b]].key)
                => (x[1] < y[1] \/ (x[1] = y[1] /\ x[2] < y[2]))

\* C26: the events of a batch that belong to different conversation keys are
\* dispatched independently: while the task of an event of key k1 is still
\* running, a later event of the same batch with a key k2 # k1 has already
\* been handed to its own chain, in either handler mode.
C26_KeysDispatchedIndependently ==
    \A t \in 1..Len(task) :
        task[t].st = "running" =>
            LET r == taskEv[t][1]
                a == taskEv[t][2]
            IN  \A b \in 1..Len(reqs[r].events) :
                    (a < b /\ reqs[r].events[b] # reqs[r].events[a])
                        => \E u \in 1..Len(task) : taskEv[u] = <<r, b>>

\* C27: a failure of one event does not abort its batch: when a request is
\* over (answered, and all its tasks settled), every event of its batch has
\* been processed, in either handler mode.
C27_FailureDoesNotAbortBatch ==
    \A r \in 1..Len(reqs) :
        (/\ reqs[r].status # 0
         /\ \A t \in 1..Len(task) : taskEv[t][1] = r => task[t].st = "settled")
            => \A idx \in 1..Len(reqs[r].events) :
                   \E t \in 1..Len(task) :
                       taskEv[t] = <<r, idx>> /\ task[t].started

(***************************************************************************)
(* Properties of the delivery engine (SpecDeliver)                         *)
(***************************************************************************)
\* C12: at most one outbound call of a delivery is answered with success: a
\* call answered 200 is the last call made (so never a reply and a push both,
\* and no push after a successful reply), and the delivery is over with it.
C12_AtMostOneSuccess ==
    \A i \in 1..Len(calls) :
        calls[i].status = 200 => (i = Len(calls) /\ dlv.pc = "resolved")

\* the reply was refused with 410 and the push went through
C12_Witness ==
    \E i, j \in 1..Len(calls) :
        /\ calls[i].chan = "reply" /\ calls[i].status = 410
        /\ calls[j].chan = "push" /\ calls[j].status = 200

\* C13 as stated: after a reply call answered with success or with a client
\* error other than 429 no further reply call is made with the handle.
C13_ReplyStopsAtFinalAnswer ==
    \A i, j \in 1..Len(calls) :
        (/\ i < j
         /\ calls[i].chan = "reply"
         /\ \/ calls[i].status = 200
            \/ (calls[i].status >= 400 /\ calls[i].status < 500 /\ calls[i].status # 429))
        => calls[j].chan # "reply"

\* C14 as stated: when a reply call was answered 410 (and none succeeded) for
\* an event of a user with a userId, the delivery ends with a push attempted,
\* and with exactly one push call, addressed to the userId, when that call
\* succeeded.
C14_OnePushAfter410 ==
    (/\ dlv.pc \in {"resolved", "rejected"}
     /\ dlvEvent.source.type = "user" /\ dlvEvent.source.id # ""
     /\ \E i \in 1..Len(calls) : calls[i].chan = "reply" /\ calls[i].status = 410
     /\ \A i \in 1..Len(calls) : calls[i].chan = "reply" => calls[i].status # 200)
    => LET pushes == {i \in 1..Len(calls) : calls[i].chan = "push"}
       IN  /\ pushes # {}
           /\ \A i \in pushes : calls[i].to = dlvEvent.source.id
           /\ (\E i \in pushes : calls[i].attempt = 1 /\ calls[i].status = 200)
                  => Cardinality(pushes) = 1

\* C15 as stated: when a reply call was answered with a client error other
\* than 429 (and none succeeded) for an event without a resolvable identity,
\* no push call is made and the delivery ends rejected with that error.
C15_TerminalWithoutIdentity ==
    (/\ ~(dlvEvent.source.type = "user" /\ dlvEvent.source.id # "")
     /\ \E i \in 1..Len(calls) : calls[i].chan = "reply" /\ calls[i].status = 410
     /\ \A i \in 1..Len(calls) : calls[i].chan = "reply" => calls[i].status # 200)
    => /\ \A i \in 1..Len(calls) : calls[i].chan # "push"
       /\ dlv.pc \in {"resolved", "rejected"} => (dlv.pc = "rejected" /\ dlv.err = 410)

\* C16: replyWithRetry makes at most 4 reply calls, numbered 1, 2, .. in the
\* order made, and after a reply call n < 4 answered 429 or 5xx it makes call
\* n + 1: it is asleep before that call or has made it.
C16_FourAttemptsRetried ==
    LET replies == {i \in 1..Len(calls) : calls[i].chan = "reply"}
    IN  /\ Cardinality(replies) <= 4
        /\ \A i \in replies : calls[i].attempt = i
        /\ \A i \in replies :
               (calls[i].attempt < 4 /\ calls[i].status \in {429, 500, 503})
               => IF i = Len(calls)
                  THEN \/ (dlv.pc = "replySleep" /\ dlv.attempt = i /\ ENABLED ReplyWake)
                       \/ (dlv.pc = "reply" /\ dlv.attempt = i + 1)
                  ELSE calls[i + 1].chan = "reply" /\ calls[i + 1].attempt = i + 1

\* four reply calls were made, after three answers 429 or 5xx
C16_Witness ==
    /\ Len(calls) >= 4
    /\ \A i \in 1..3 : calls[i].chan = "reply" /\ calls[i].status \in {429, 500}
    /\ calls[4].chan = "reply"
    /\ \E i \in 1..3 : calls[i].status = 500

\* C17: the wait of a retry loop (replyWithRetry, and pushWithRetry of the
\* fetch engine) after a 429/5xx answer to attempt n is the retry-after value
\* in milliseconds when the answer carries a positive one (2 s for "2"), else
\* 2 s, 4 s, 8 s for n = 1, 2, 3 (and 8 s at most).
C17_WaitAfterRetryable ==
    \A i \in 1..Len(calls) :
        (/\ calls[i].status \in {429, 500, 503}
         /\ (calls[i].chan = "reply" \/ impl = "fetch")) =>
            calls[i].wait =
                IF calls[i].retryAfter = <<"2">> THEN 2000
                ELSE IF calls[i].retryAfter = <<>>
                THEN CASE calls[i].attempt = 1 -> 2000
                       [] calls[i].attempt = 2 -> 4000
                       [] OTHER -> 8000
                ELSE calls[i].wait

\* attempt 2 was answered 429 with retry-after 2, attempt 3 with 429 without
C17_Witness ==
    \E i, j \in 1..Len(calls) :
        /\ calls[i].chan = "reply" /\ calls[i].attempt = 2
        /\ calls[i].status = 429 /\ calls[i].retryAfter = <<"2">>
        /\ calls[j].chan = "reply" /\ calls[j].attempt = 3
        /\ calls[j].status = 429 /\ calls[j].retryAfter = <<>>
        /\ calls[j].wait = 8000

\* C18 as stated: when all 4 reply calls were answered 429 or 5xx the delivery
\* ends rejected, and no further call is made.
C18_ExhaustedRejects ==
    (/\ Len(calls) >= 4
     /\ \A i \in 1..4 : calls[i].chan = "reply" /\ calls[i].status \in {429, 500, 503})
    => /\ Len(calls) = 4
       /\ dlv.pc # "resolved"

\* C19 as stated: a reply call n < 4 that fails with a transport error is
\* followed by reply call n + 1.
C19_TransportErrorRetried ==
    \A i \in 1..Len(calls) :
        (calls[i].chan = "reply" /\ calls[i].status = 0 /\ calls[i].attempt < 4)
        => /\ dlv.pc # "rejected"
           /\ i < Len(calls) => (calls[i + 1].chan = "reply"
                                 /\ calls[i + 1].attempt = calls[i].attempt + 1)

\* C28: the fallback push has its own budget of 4 attempts and retries as the
\* reply does: at most 4 reply calls and 4 push calls are made, the push calls
\* are numbered from 1 whatever the number of reply calls, and after a push
\* call n < 4 answered 429 or 5xx the push call n + 1 follows: the delivery is
\* asleep before that call or has made it.
C28_PushHasOwnRetryBudget ==
    LET replies == {i \in 1..Len(calls) : calls[i].chan = "reply"}
        pushes == {i \in 1..Len(calls) : calls[i].chan = "push"}
    IN  /\ Cardinality(replies) <= 4
        /\ Cardinality(pushes) <= 4
        /\ \A i \in pushes : calls[i].attempt = i - Cardinality(replies)
        /\ \A i \in pushes :
               (calls[i].attempt < 4 /\ calls[i].status \in {429, 500, 503})
               => IF i = Len(calls)
                  THEN \/ /\ dlv.pc = "pushSleep"
                          /\ dlv.attempt = calls[i].attempt
                          /\ ENABLED PushWake
                       \/ (dlv.pc = "push" /\ dlv.attempt = calls[i].attempt + 1)
                  ELSE /\ calls[i + 1].chan = "push"
                       /\ calls[i + 1].attempt = calls[i].attempt + 1

\* ---------------------------------------------------------------------------
\* Properties of the transmitted payload (SpecPayload)
\* ---------------------------------------------------------------------------

\* C20: no message of a transmitted payload (reply or push) carries a quickReply
\* whose items are missing or empty; the message that had one is sent, in its
\* place, without it.
C20_NoEmptyQuickReplySent ==
    \A i \in 1..Len(calls) :
        /\ Len(calls[i].messages) = Len(sanitizeMessages(rawMessages))
        /\ \A k \in 1..Len(calls[i].messages) :
            LET m == calls[i].messages[k]
            IN  /\ m.text = sanitizeMessages(rawMessages)[k].text
                /\ m.quickReply.present =>
                       m.quickReply.isArray /\ Len(m.quickReply.items) > 0

\* C21: withQuickReply called with no items, an empty items list or only invalid
\* items returns messages none of which carries a quickReply field.
C21_NoQuickReplyWithoutItems ==
    (dlv.pc # "route" /\ ~domain.matched /\ filterValid(domain.items) = <<>>)
        => \A k \in 1..Len(rawMessages) : ~rawMessages[k].quickReply.present

\* C22: the messages of every outbound call are the first five non-null
\* entries of the list handed over, in their order: between 1 and 5 entries,
\* none of them null.
C22_FirstFiveNonNull ==
    \A i \in 1..Len(calls) :
        LET sent == calls[i].messages
            nonNull == filterBoolean(rawMessages)
        IN  /\ Len(sent) >= 1
            /\ Len(sent) <= 5
            /\ Len(sent) = IF Len(nonNull) > 5 THEN 5 ELSE Len(nonNull)
            /\ \A k \in 1..Len(sent) :
                   /\ sent[k].type # "null"
                   /\ sent[k].type = nonNull[k].type
                   /\ sent[k].text = nonNull[k].text

\* a list of six messages and a null has been sent as its first five messages
C22_Witness ==
    /\ Len(rawMessages) = 7
    /\ \E k \in 1..Len(rawMessages) : rawMessages[k] = null
    /\ \E i \in 1..Len(calls) :
           /\ calls[i].chan = "push"
           /\ Len(calls[i].messages) = 5
           /\ calls[i].messages[5].text = "m5"

\* C23: when the list handed over is not an array or holds only null entries,
\* the delivery makes no outbound call and completes without an error.
C23_EmptyListIsNoOp ==
    (/\ dlv.pc # "route"
     /\ \/ rawMessages = NotAnArray
        \/ \A k \in 1..Len(rawMessages) : rawMessages[k] = null)
        => /\ calls = <<>>
           /\ dlv.pc \in {"called", "resolved"}
           /\ dlv.pc = "called" => ENABLED ReplyWithRetryOrPush

\* a list of null entries, and a value that is not an array, were completed
\* without a call
C23_Witness ==
    /\ dlv.pc = "resolved"
    /\ calls = <<>>
    /\ rawMessages \in {<<null, null>>, NotAnArray}

\* ---------------------------------------------------------------------------
\* Properties of admission with a drained bucket and a failing store (SpecAdmit)
\* ---------------------------------------------------------------------------

\* C24: an event rejected at admission (redelivery flag, duplicate, debounced,
\* rate-limited) reaches no outbound call and processEvent returns normally
\* for it.
C24_RejectedIsSilent ==
    last.outcome \in {"redelivery", "duplicate", "debounced", "rateLimited"}
        => /\ ~last.reached
           /\ last.outcome \notin {"failed", "storeError"}

\* an event of user u1, whose bucket is empty, was rejected by the rate limiter
C24_Witness ==
    /\ last.outcome = "rateLimited"
    /\ ~last.reached
    /\ rate[<<"user", "u1">>].tokens = 0

\* C25: the debounce filter runs before the rate limiter: the step in which
\* tapGuardAccept rejects an event leaves the rate buckets as they were.
C25_DebounceBeforeRate ==
    [][\A i \in Procs :
           (proc[i].pc = "afterDup" /\ proc'[i].pc = "afterTap" /\ ~proc'[i].tap)
               => rate' = rate]_vars

\* C29: a store call that rejects during admission never leaves processEvent
\* as an error: the event is admitted or silently dropped.
C29_StoreErrorContained ==
    last.outcome # "storeError"

\* C30: processing an event whose redelivery flag is set leaves the dedupe
\* store, the debounce store and the rate buckets exactly as they were.
C30_RedeliveryTouchesNothing ==
    [][(nEvents' = nEvents + 1 /\ proc' = proc /\ last'.outcome = "redelivery")
           => UNCHANGED <<seenMem, tapMem, redisDb, rate>>]_vars

\* the redelivered copy of an event was dropped and every store is still empty
C30_Witness ==
    /\ last.outcome = "redelivery"
    /\ last.ev.isRedelivery
    /\ nEvents = 1
    /\ seenMem = EmptyMap
    /\ redisDb = EmptyMap
    /\ tapMem = EmptyMap
    /\ rate = EmptyMap

\* ---------------------------------------------------------------------------
\* Further properties of admission (Spec)
\* ---------------------------------------------------------------------------

\* C31: a call of isDuplicate or tapGuardAccept that finds an unexpired record
\* rejects and leaves the stores as they are: no entry is added and no expiry
\* is moved.
C31_RejectionLeavesStore ==
    [][\A i \in Procs :
           /\ (proc[i].pc = "idle" /\ proc'[i].pc = "afterDup" /\ proc'[i].dup)
                  => (seenMem' = seenMem /\ redisDb' = redisDb)
           /\ (proc[i].pc = "afterDup" /\ proc'[i].pc = "afterTap" /\ ~proc'[i].tap)
                  => (tapMem' = tapMem /\ redisDb' = redisDb)]_vars

\* a copy that arrived later than the first one was found a duplicate, and the
\* record still expires one TTL after the first arrival
C31_Witness ==
    \E i \in Procs :
        /\ proc[i].pc = "afterDup"
        /\ proc[i].dup
        /\ proc[i].at > 0
        /\ IF redis
           THEN /\ MapHas(redisDb, <<"dedupe", eventKey(proc[i].ev)>>)
                /\ redisDb[<<"dedupe", eventKey(proc[i].ev)>>] = DEDUPE_TTL_MS
           ELSE /\ MapHas(seenMem, eventKey(proc[i].ev))
                /\ seenMem[eventKey(proc[i].ev)] = DEDUPE_TTL_MS

\* ---------------------------------------------------------------------------
\* Further properties of the per-key sequencer (SpecSeq, SpecSeqLive)
\* ---------------------------------------------------------------------------
\* the last task submitted for a key
LastOfKey(k) ==
    CHOOSE i \in Tasks : task[i].key = k /\ \A j \in Tasks : task[j].key = k => j <= i

\* C32: the entry of a key is removed only by the settlement of the task it
\* points at: while a task of the key is waiting or executing (its finally
\* callback has not run) the key has its entry, and the entry points at the
\* task submitted last for the key.
C32_EntryKeptWhilePending ==
    /\ \A i \in Tasks :
           task[i].st \in {"chained", "joined", "running", "taskDone"}
               => /\ MapHas(perKeyQueue, task[i].key)
                  /\ perKeyQueue[task[i].key] = LastOfKey(task[i].key)
    /\ \A k \in DOMAIN perKeyQueue :
           /\ perKeyQueue[k] \in Tasks
           /\ task[perKeyQueue[k]].key = k
           /\ task[perKeyQueue[k]].st \in {"chained", "joined", "running", "taskDone"}

\* the finally callback of a task has run after a newer task of its key was
\* appended, and the entry points at the newer task
C32_Witness ==
    \E i, j \in Tasks :
        /\ i < j
        /\ task[i].key = task[j].key
        /\ task[i].st \in {"finalized", "settled"}
        /\ task[j].st = "chained"
        /\ MapHas(perKeyQueue, task[j].key)
        /\ perKeyQueue[task[j].key] = j

\* C33: when every task submitted for a key has settled, by success or by
\* failure, the key is eventually absent from perKeyQueue unless a new task
\* is submitted; a task submitted for an absent key is chained to
\* Promise.resolve() and can go on at once.
C33_LaneReturnsToAbsent ==
    /\ \A k \in ConvKeys :
           (\A i \in Tasks : task[i].key = k => TaskSettled(i))
               ~> \/ ~MapHas(perKeyQueue, k)
                  \/ \E i \in Tasks : task[i].key = k /\ ~TaskSettled(i)
    /\ [](\A j \in Tasks :
              (task[j].st = "chained" /\ task[j].prev = 0) => ENABLED JoinPrev(j))

\* a lane was created again: a task of a key is chained to Promise.resolve()
\* after an earlier task of that key had failed and its entry was removed
C33_Witness ==
    \E i, j \in Tasks :
        /\ i < j
        /\ task[i].key = task[j].key
        /\ task[i].res = "err"
        /\ task[j].prev = 0
        /\ task[j].started

\* C37: every task handed to lockPerKeyAndRun is started exactly once: it
\* appears at most once in startOrder, it does not end without taskFn() having
\* been called, and once the earlier tasks of its key have settled it is
\* eventually started.
C37_StartedExactlyOnce ==
    /\ [](\A a, b \in 1..Len(startOrder) : a # b => startOrder[a] # startOrder[b])
    /\ [](\A j \in Tasks :
              /\ task[j].started <=> \E a \in 1..Len(startOrder) : startOrder[a] = j
              /\ task[j].st \in {"taskDone", "finalized", "settled"} => task[j].started)
    /\ \A j \in 1..MaxTasks :
           (/\ j \in Tasks
            /\ \A i \in Tasks : (i < j /\ task[i].key = task[j].key) => TaskSettled(i))
               ~> (j \in Tasks /\ task[j].started)

\* a task behind two earlier tasks of its key, one of them rejected, has started
C37_Witness ==
    \E i, j, l \in Tasks :
        /\ i < j
        /\ j < l
        /\ task[i].key = task[l].key
        /\ task[j].key = task[l].key
        /\ task[j].res = "err"
        /\ task[l].started
        /\ Len(startOrder) = 3

\* C35: the idempotency record is written before the rate limiter, the
\* debounce filter and the delivery, and stays until its TTL is over: after an
\* event that passed isDuplicate was rate-limited, debounced, or failed in its
\* delivery, its record is in the store for DEDUPE_TTL_MS from its arrival,
\* and every call of isDuplicate for its id inside that time returns true.
C35_RecordOutlivesRejection ==
    /\ []((/\ last.outcome \in {"rateLimited", "debounced", "failed", "replied"}
           /\ clock < last.at + DEDUPE_TTL_MS)
              => IF redis
                 THEN redisLive(redisDb, <<"dedupe", eventKey(last.ev)>>, clock)
                 ELSE /\ MapHas(seenMem, eventKey(last.ev))
                      /\ seenMem[eventKey(last.ev)] > clock)
    /\ [][\A i \in Procs :
              (/\ proc[i].pc = "idle"
               /\ proc'[i].pc = "afterDup"
               /\ MapHas(admitted, eventKey(proc'[i].ev))
               /\ clock < admitted[eventKey(proc'[i].ev)].last + DEDUPE_TTL_MS)
                  => proc'[i].dup]_vars

\* an event was rate-limited, and a later copy of it was found a duplicate
C35_Witness ==
    /\ last.outcome = "rateLimited"
    /\ proc[1].pc = "afterDup"
    /\ proc[1].dup
    /\ proc[1].ev.webhookEventId = last.ev.webhookEventId
    /\ proc[1].at > last.at

\* C36: an event dropped as a duplicate takes no rate token and leaves no
\* debounce record: neither the step in which isDuplicate finds it nor the
\* step in which processEvent returns for it changes the rate buckets or the
\* debounce store.
C36_DuplicateTakesNoToken ==
    [][\A i \in Procs :
           (\/ (proc[i].pc = "idle" /\ proc'[i].pc = "afterDup" /\ proc'[i].dup)
            \/ (proc[i].pc = "afterDup" /\ proc[i].dup /\ proc'[i].pc = "idle"))
               => (rate' = rate /\ tapMem' = tapMem /\ redisDb' = redisDb)]_vars

\* a copy was dropped as a duplicate and the bucket of its key has lost the one
\* token of the first copy only
C36_Witness ==
    /\ last.outcome = "duplicate"
    /\ nEvents = 2
    /\ MapHas(rate, keyFromEvent(last.ev))
    /\ rate[keyFromEvent(last.ev)].tokens = RATE_CAP - 1

\* the instants, from now on, at which a later call can be made
LaterTimes == {clock + d : d \in {0, 600, 1200, 299400, 300000}}

\* C38: a sweep removes only entries whose expiry is not later than the current
\* time and leaves the others as they are, and no later call of isDuplicate or
\* tapGuardAccept returns anything else than it would have without the sweep:
\* the same events are admitted with the sweeper and without it.
C38_SweepIsInvisible ==
    [][/\ (seenMem' # seenMem /\ nEvents' = nEvents) =>
              /\ DOMAIN seenMem' \subseteq DOMAIN seenMem
              /\ \A k \in DOMAIN seenMem :
                     /\ IF MapHas(seenMem', k) THEN seenMem'[k] = seenMem[k]
                        ELSE seenMem[k] <= clock
                     /\ \A t \in LaterTimes :
                            isDuplicateMem(seenMem', k, t).ret
                                = isDuplicateMem(seenMem, k, t).ret
       /\ (tapMem' # tapMem /\ proc' = proc) =>
              /\ DOMAIN tapMem' \subseteq DOMAIN tapMem
              /\ \A k \in DOMAIN tapMem :
                     /\ IF MapHas(tapMem', k) THEN tapMem'[k] = tapMem[k]
                        ELSE tapMem[k] <= clock
                     /\ \A t \in LaterTimes :
                            tapGuardAcceptMem(tapMem', k, t).ret
                                = tapGuardAcceptMem(tapMem, k, t).ret]_vars

\* the sweeper has removed the record of an event that had been admitted
C38_Witness ==
    /\ ~redis
    /\ \E k \in DOMAIN admitted : ~MapHas(seenMem, k)
    /\ \E k \in DOMAIN accepted : ~MapHas(tapMem, k)

\* ---------------------------------------------------------------------------
\* Properties of the log (SpecLog)
\* ---------------------------------------------------------------------------
\* C34: the passphrase of an admin registration is never written to the log:
\* no record of any path through processEvent carries it.
C34_PassphraseNeverLogged ==
    \A i \in 1..Len(logged) :
        \A k \in 1..Len(logged[i].text) : logged[i].text[k] # "secret"

====
